---- MODULE Spec2Model ----
(***************************************************************************)
(* Model of pulse_system_infoheavy.py: the SystemData sampler (counter     *)
(* state, rate derivation, five history deques) and the handlers of        *)
(* PulseSystemInfoApp that drive it and build the process view.            *)
(*                                                                         *)
(* Python floats are modelled as exact rationals <<num, den>> in lowest    *)
(* terms with den > 0; time.time() is an integer number of time units.     *)
(* A psutil call that may raise is modelled as a reading with an ok flag.  *)
(***************************************************************************)
EXTENDS Integers, Sequences, FiniteSets, TLC

\* ---------------------------------------------------------------- constants
APP_UPDATE_INTERVAL_MS_DEFAULT == 1000

MAX_HISTORY == 120

\* top_spin.setMinimum(5), top_spin.setValue(30)
TOP_N_MIN == 5

TOP_N_DEFAULT == 30

\* interval_spin.setMinimum(200)
INTERVAL_MS_MIN == 200

\* ------------------------------------------------------------------- bounds
\* time.time() readings are drawn from 0..MaxTime
MaxTime == 2

\* network byte counters are drawn from 0..MaxBytes
MaxBytes == 1

\* the readings taken by SystemData.__init__ (time and both byte counters)
InitTime == 1

InitBytes == 1

\* successful sample() calls per behaviour
MaxSamples == 2

\* successful sample() calls per behaviour of the disk specification
MaxDiskSamples == 1

\* partitions returned by one psutil.disk_partitions() call
MaxParts == 2

\* processes returned by one psutil.process_iter() enumeration
MaxProcs == 3

\* successful sample() calls per behaviour of the application
MaxAppSamples == 3

\* processes of the longest enumeration of the top-N specification
MaxCrowd == 6

\* byte counts passed to human_readable_bytes are k * 128 * 1024^e for k up to
\* MaxEighths
MaxEighths == 16

\* events waiting in the Qt event queue
MaxPending == 2

\* ---------------------------------------------------------------- rationals
RECURSIVE GCD(_, _)
GCD(a, b) == IF b = 0 THEN a ELSE GCD(b, a % b)

Abs(n) == IF n < 0 THEN -n ELSE n

\* the float n / d (d > 0), in lowest terms
QDiv(n, d) ==
  LET g == GCD(Abs(n), d)
  IN  IF n = 0 THEN <<0, 1>> ELSE <<n \div g, d \div g>>

\* the float q * k for an integer k
QTimes(q, k) == QDiv(q[1] * k, q[2])

Q(n) == <<n, 1>>

QNeg(q) == q[1] < 0

\* ------------------------------------------------------------------ helpers
SeqsUpTo(S, n) == UNION {[1..k -> S] : k \in 0..n}

Last(s) == s[Len(s)]

\* ----------------------------------------------------- OS metrics readings
\* psutil.cpu_percent() / psutil.virtual_memory().percent: a value, or raises
FailedReading == [ok |-> FALSE, v |-> Q(0)]

OkCpu == [ok |-> TRUE, v |-> Q(10)]

OkRam == [ok |-> TRUE, v |-> Q(20)]

CpuReadings == {FailedReading, OkCpu}

RamReadings == {FailedReading, OkRam}

\* psutil.disk_usage(mountpoint): used and total bytes, or raises
FailedUsage == [ok |-> FALSE, used |-> 0, total |-> 0]

Usage(used, total) == [ok |-> TRUE, used |-> used, total |-> total]

PartReadings == {FailedUsage, Usage(50, 100), Usage(25, 100), Usage(0, 0)}

\* psutil.disk_partitions(): the partitions (here: their usage reads), or raises
NoParts == [ok |-> FALSE, list |-> << >>]

PartsReadings ==
  {NoParts}
    \cup {[ok |-> TRUE, list |-> l] : l \in SeqsUpTo(PartReadings, MaxParts)}

\* psutil.disk_usage("/").percent: a value, or raises
ProbeReadings ==
  {FailedReading, [ok |-> TRUE, v |-> Q(40)], [ok |-> TRUE, v |-> Q(80)]}

\* psutil.net_io_counters()
Counters(sent, recv) == [bytes_sent |-> sent, bytes_recv |-> recv]

NetReadings == {Counters(s, r) : s \in 0..MaxBytes, r \in 0..MaxBytes}

TimeReadings == 0..MaxTime

\* everything one sample() call reads from the OS
Reading(now, cpu, ram, parts, probe, net) ==
  [now |-> now, cpu |-> cpu, ram |-> ram, parts |-> parts, probe |-> probe,
   net |-> net]

TwoParts == [ok |-> TRUE, list |-> <<Usage(50, 100), Usage(25, 100)>>]

\* a call in which cpu_percent() or virtual_memory() raises reads nothing
\* after it
FailingInputs ==
  {Reading(InitTime, cpu, ram, NoParts, FailedReading, Counters(0, 0)) :
     cpu \in CpuReadings, ram \in RamReadings} \
    {Reading(InitTime, OkCpu, OkRam, NoParts, FailedReading, Counters(0, 0))}

\* readings that vary the clock and the network counters
NetInputs ==
  {Reading(now, OkCpu, OkRam, TwoParts, FailedReading, net) :
     now \in TimeReadings, net \in NetReadings} \cup FailingInputs

\* readings that vary the disk queries
DiskInputs ==
  {Reading(InitTime, OkCpu, OkRam, parts, probe, Counters(InitBytes, InitBytes)) :
     parts \in PartsReadings, probe \in ProbeReadings}
    \cup FailingInputs

\* --------------------------------------------------------------- SystemData
\* mutant of Push: a deque built without maxlen
PushUnbounded(h, v) == Append(h, v)

\* a full deque losing its newest entry instead of its oldest
PushDropsNewest(h, v) ==
  IF Len(h) >= MAX_HISTORY THEN Append(SubSeq(h, 1, Len(h) - 1), v)
  ELSE Append(h, v)

\* deque(maxlen=MAX_HISTORY).append
Push(h, v) ==
  IF Len(h) >= MAX_HISTORY THEN Append(Tail(h), v) ELSE Append(h, v)

Prefilled == [i \in 1..MAX_HISTORY |-> Q(0)]

\* SystemData.__init__
NewSystemData(net, now) ==
  [last_net |-> net, last_time |-> now,
   cpu_hist |-> Prefilled, ram_hist |-> Prefilled, disk_hist |-> Prefilled,
   net_sent_hist |-> Prefilled, net_recv_hist |-> Prefilled]

RECURSIVE SumUsed(_)
SumUsed(l) ==
  IF l = << >> THEN 0
  ELSE (IF Head(l).ok THEN Head(l).used ELSE 0) + SumUsed(Tail(l))

RECURSIVE SumTotal(_)
SumTotal(l) ==
  IF l = << >> THEN 0
  ELSE (IF Head(l).ok THEN Head(l).total ELSE 0) + SumTotal(Tail(l))

\* mutant of DiskPercent: the loop has no inner try, so one failing partition
\* sends the whole block to the fallback probe
DiskPercentAbortOnFail(parts, probe) ==
  IF parts.ok /\ \A i \in 1..Len(parts.list) : parts.list[i].ok
    THEN LET total_used == SumUsed(parts.list)
             total_total == SumTotal(parts.list)
         IN  IF total_total > 0
               THEN QTimes(QDiv(total_used, total_total), 100)
               ELSE Q(0)
    ELSE IF probe.ok THEN probe.v ELSE Q(0)

\* sample(), the disk block
DiskPercent(parts, probe) ==
  IF parts.ok
    THEN LET total_used == SumUsed(parts.list)
             total_total == SumTotal(parts.list)
         IN  IF total_total > 0
               THEN QTimes(QDiv(total_used, total_total), 100)
               ELSE Q(0)
    ELSE IF probe.ok THEN probe.v ELSE Q(0)

\* mutant of Elapsed: a clock that went backwards divides by the distance
ElapsedAbs(now, last_time) ==
  IF now - last_time > 0 THEN now - last_time
  ELSE IF now = last_time THEN 1 ELSE last_time - now

\* sample(), elapsed
Elapsed(now, last_time) ==
  IF now - last_time > 0 THEN now - last_time ELSE 1

\* mutant of Rate: the counter difference is not divided by the elapsed time
RateNoDivide(current, previous, elapsed) == Q(current - previous)

\* sample(), sent_rate / recv_rate
Rate(current, previous, elapsed) == QDiv(current - previous, elapsed)

NoReturn ==
  [status |-> "none", cpu |-> Q(0), ram |-> Q(0), disk_percent |-> Q(0),
   net_sent |-> Q(0), net_recv |-> Q(0)]

Raised == [NoReturn EXCEPT !.status = "raised"]

\* mutant of Aborted: the timestamp is stored as soon as it is taken
AbortedAfterTimestamp(d, in) == [d EXCEPT !.last_time = in.now]

\* sample() leaves through an exception of cpu_percent() or virtual_memory():
\* the object as the call leaves it
Aborted(d, in) == d

\* self.last_net = net
NewLastNet(d, in) == in.net

\* mutant of NewLastTime: a clamped interval keeps the old timestamp
NewLastTimeKeepOnClamp(d, in) ==
  IF in.now - d.last_time > 0 THEN in.now ELSE d.last_time

\* self.last_time = now
NewLastTime(d, in) == in.now

\* sample() without self.disk_hist.append(disk_percent)
SampleCallNoDiskPush(d, in) ==
  IF ~in.cpu.ok \/ ~in.ram.ok
    THEN [d |-> Aborted(d, in), ret |-> Raised]
    ELSE
      LET cpu == in.cpu.v
          ram == in.ram.v
          disk_percent == DiskPercent(in.parts, in.probe)
          elapsed == Elapsed(in.now, d.last_time)
          sent_rate == Rate(in.net.bytes_sent, d.last_net.bytes_sent, elapsed)
          recv_rate == Rate(in.net.bytes_recv, d.last_net.bytes_recv, elapsed)
      IN  [d |-> [last_net |-> NewLastNet(d, in),
                  last_time |-> NewLastTime(d, in),
                  cpu_hist |-> Push(d.cpu_hist, cpu),
                  ram_hist |-> Push(d.ram_hist, ram),
                  disk_hist |-> d.disk_hist,
                  net_sent_hist |-> Push(d.net_sent_hist, sent_rate),
                  net_recv_hist |-> Push(d.net_recv_hist, recv_rate)],
           ret |-> [status |-> "returned", cpu |-> cpu, ram |-> ram,
                    disk_percent |-> disk_percent, net_sent |-> sent_rate,
                    net_recv |-> recv_rate]]

\* sample() on the object d with the readings in: the object afterwards and
\* what the call returned
SampleCall(d, in) ==
  IF ~in.cpu.ok \/ ~in.ram.ok
    THEN [d |-> Aborted(d, in), ret |-> Raised]
    ELSE
      LET cpu == in.cpu.v
          ram == in.ram.v
          disk_percent == DiskPercent(in.parts, in.probe)
          elapsed == Elapsed(in.now, d.last_time)
          sent_rate == Rate(in.net.bytes_sent, d.last_net.bytes_sent, elapsed)
          recv_rate == Rate(in.net.bytes_recv, d.last_net.bytes_recv, elapsed)
      IN  [d |-> [last_net |-> NewLastNet(d, in),
                  last_time |-> NewLastTime(d, in),
                  cpu_hist |-> Push(d.cpu_hist, cpu),
                  ram_hist |-> Push(d.ram_hist, ram),
                  disk_hist |-> Push(d.disk_hist, disk_percent),
                  net_sent_hist |-> Push(d.net_sent_hist, sent_rate),
                  net_recv_hist |-> Push(d.net_recv_hist, recv_rate)],
           ret |-> [status |-> "returned", cpu |-> cpu, ram |-> ram,
                    disk_percent |-> disk_percent, net_sent |-> sent_rate,
                    net_recv |-> recv_rate]]

\* ------------------------------------------------------------ process view
\* Strings are sequences of code points.
Lower(c) == IF c \in 65..90 THEN c + 32 ELSE c

\* str.lower()
LowerStr(s) == [i \in 1..Len(s) |-> Lower(s[i])]

IsSpace(c) == c \in {9, 10, 11, 12, 13, 32}

RECURSIVE LStrip(_)
LStrip(s) == IF s # << >> /\ IsSpace(Head(s)) THEN LStrip(Tail(s)) ELSE s

RECURSIVE RStrip(_)
RStrip(s) ==
  IF s # << >> /\ IsSpace(Last(s)) THEN RStrip(SubSeq(s, 1, Len(s) - 1)) ELSE s

\* str.strip()
Strip(s) == RStrip(LStrip(s))

\* str(pid) for pid >= 0
RECURSIVE Str(_)
Str(n) == IF n < 10 THEN <<48 + n>> ELSE Str(n \div 10) \o <<48 + (n % 10)>>

\* q in s
Contains(q, s) ==
  \E i \in 0..(Len(s) - Len(q)) : SubSeq(s, i + 1, i + Len(q)) = q

\* a < b for two strings, or for two one-element sequences holding a number
LexLess(a, b) ==
  \E i \in 1..Len(b) :
    /\ \A j \in 1..(i - 1) : j <= Len(a) /\ a[j] = b[j]
    /\ (i > Len(a) \/ a[i] < b[i])

Reverse(l) == [i \in 1..Len(l) |-> l[Len(l) + 1 - i]]

\* the key= lambdas of update_process_list, by sort_combo text
Key(s, t) ==
  CASE s = "CPU" -> <<t.cpu>>
    [] s = "RAM" -> <<t.mem>>
    [] s = "PID" -> <<t.pid>>
    [] OTHER -> LowerStr(t.name)

\* x put into the ascending list l behind every element whose key is not greater
InsertByKey(l, x, s) ==
  LET n == Cardinality({i \in 1..Len(l) : ~LexLess(Key(s, x), Key(s, l[i]))})
  IN  SubSeq(l, 1, n) \o <<x>> \o SubSeq(l, n + 1, Len(l))

\* list.sort(key=...): ascending and stable
RECURSIVE SortAscending(_, _)
SortAscending(l, s) ==
  IF l = << >> THEN << >>
  ELSE InsertByKey(SortAscending(SubSeq(l, 1, Len(l) - 1), s), Last(l), s)

\* mutant of SortDescending: ascending sort, then reversed
SortDescendingUnstable(l, s) == Reverse(SortAscending(l, s))

\* list.sort(key=..., reverse=True): the list is reversed, sorted ascending
\* and reversed again, which keeps equal keys in their original order
SortDescending(l, s) == Reverse(SortAscending(Reverse(l), s))

\* the procs.sort(...) chain
SortProcs(procs, s) ==
  IF s \in {"CPU", "RAM"} THEN SortDescending(procs, s)
  ELSE SortAscending(procs, s)

\* the process_iter loop: one tuple per process whose reads did not raise
\* NoSuchProcess or AccessDenied
EnumerateStopsAtError(os) ==
  LET Readable(p) == p.err = "ok"
      Tuple(p) == [name |-> IF p.name # << >> THEN p.name ELSE Str(p.pid),
                   pid |-> p.pid, cpu |-> p.cpu, mem |-> p.mem]
      failed == {i \in 1..Len(os) : ~Readable(os[i])}
      ok == IF failed = {} THEN os
            ELSE SubSeq(os, 1, (CHOOSE i \in failed :
                                  \A j \in failed : i <= j) - 1)
  IN  [i \in 1..Len(ok) |-> Tuple(ok[i])]

Enumerate(os) ==
  LET Readable(p) == p.err = "ok"
      Tuple(p) == [name |-> IF p.name # << >> THEN p.name ELSE Str(p.pid),
                   pid |-> p.pid, cpu |-> p.cpu, mem |-> p.mem]
      ok == SelectSeq(os, Readable)
  IN  [i \in 1..Len(ok) |-> Tuple(ok[i])]

\* the filter comprehension
MatchesNameOnly(q, t) == Contains(q, LowerStr(t.name))

Matches(q, t) == Contains(q, LowerStr(t.name)) \/ q = Str(t.pid)

FilterProcs(procs, q) ==
  LET Keep(t) == Matches(q, t)
  IN  IF q # << >> THEN SelectSeq(procs, Keep) ELSE procs

\* procs[:top_n]
Truncate(procs, top_n) ==
  SubSeq(procs, 1, IF top_n < Len(procs) THEN top_n ELSE Len(procs))

\* update_process_list cutting the list to top-N before the filter is applied
UpdateProcessListTruncateFirst(text, top_n, s, os) ==
  LET q == LowerStr(Strip(text))
  IN  FilterProcs(Truncate(SortProcs(Enumerate(os), s), top_n), q)

\* update_process_list: the items put into the process list widget
UpdateProcessList(text, top_n, s, os) ==
  LET q == LowerStr(Strip(text))
  IN  Truncate(FilterProcs(SortProcs(Enumerate(os), s), q), top_n)

\* ----------------------------------------------------- process readings
Proc(name, pid, cpu, mem, err) ==
  [name |-> name, pid |-> pid, cpu |-> cpu, mem |-> mem, err |-> err]

\* "A", "B", "C": the ranking example of the specification; "b" ties with "B"
\* case-insensitively and has a two-digit PID
Catalogue ==
  {Proc(<<65>>, 1, 10, 5, "ok"), Proc(<<66>>, 2, 50, 5, "ok"),
   Proc(<<67>>, 3, 50, 1, "ok"), Proc(<<98>>, 10, 10, 1, "ok")}

\* processes are enumerated in any order, each PID once
Distinct(l) == \A i, j \in 1..Len(l) : i # j => l[i].pid # l[j].pid

ProcLists == {l \in SeqsUpTo(Catalogue, MaxProcs) : Distinct(l)}

SortKeys == {"CPU", "RAM", "PID", "Name"}

\* texts typed into the filter box: "", "b"
Filters == {<< >>, <<98>>}

TopValues == {TOP_N_MIN, TOP_N_DEFAULT}

IntervalValues == {INTERVAL_MS_MIN, APP_UPDATE_INTERVAL_MS_DEFAULT}

\* the ranking example of the specification, in both enumeration orders
RankingExample ==
  <<Proc(<<65>>, 1, 10, 5, "ok"), Proc(<<66>>, 2, 50, 5, "ok"),
    Proc(<<67>>, 3, 50, 1, "ok")>>

AppProcLists == {RankingExample, Reverse(RankingExample)}

\* readings of the application's sample() calls: at the instant of the
\* previous reading or later, or with a failing CPU query
AppInputs ==
  {Reading(now, OkCpu, OkRam, TwoParts, FailedReading,
           Counters(InitBytes, InitBytes)) : now \in {InitTime, MaxTime}}
    \cup {Reading(InitTime, FailedReading, OkRam, NoParts, FailedReading,
                  Counters(0, 0))}

\* readings of one update_all: those of its sample() call, and whether the
\* second virtual_memory() call (for the RAM label) answers
UpdateInputs ==
  {[in |-> in, vm_ok |-> TRUE] : in \in AppInputs}
    \cup {[in |-> in, vm_ok |-> FALSE] : in \in {i \in AppInputs : i.cpu.ok /\ i.now = InitTime}}

\* ------------------------------------------------------ human_readable_bytes
\* step = 1024.0
STEP == 1024

\* units = ['B', 'KB', 'MB', 'GB', 'TB']
UNITS == <<<<66>>, <<75, 66>>, <<77, 66>>, <<71, 66>>, <<84, 66>>>>

RECURSIVE Pow(_, _)
Pow(b, k) == IF k = 0 THEN 1 ELSE b * Pow(b, k - 1)

\* a byte count m * 1024^e (e falls below 0 while the loop divides), or None
Bytes(m, e) == [none |-> FALSE, m |-> m, e |-> e]

None == [none |-> TRUE, m |-> 0, e |-> 0]

\* n > step
AtLeastStepStrict(m, e) ==
  IF e >= 1 THEN m >= 1 /\ ~(e = 1 /\ m = 1)
  ELSE IF 1 - e <= 3 THEN m > Pow(STEP, 1 - e)
  ELSE FALSE

\* n >= step, for n = m * 1024^e and m below 2^31
AtLeastStep(m, e) ==
  IF e >= 1 THEN m >= 1
  ELSE IF 1 - e <= 3 THEN m >= Pow(STEP, 1 - e)
  ELSE FALSE

\* while n >= step and i < len(units) - 1: n /= step; i += 1
RECURSIVE Loop(_, _, _)
Loop(m, e, i) ==
  IF AtLeastStep(m, e) /\ i < Len(UNITS) - 1 THEN Loop(m, e - 1, i + 1)
  ELSE [m |-> m, e |-> e, i |-> i]

\* f"{n:.1f}" for n = m * 1024^e: the nearest tenth, a tie going to the even
\* digit (n is a binary fraction, so the float holds it exactly)
Format1(m, e) ==
  IF e >= 0 THEN Str(m * Pow(STEP, e)) \o <<46, 48>>
  ELSE
    LET d == Pow(STEP, 0 - e)
        whole == m \div d
        rem == m % d
        t == (10 * rem) \div d
        r == (10 * rem) % d
        up == 2 * r > d \/ (2 * r = d /\ t % 2 = 1)
        tenths == 10 * whole + t + (IF up THEN 1 ELSE 0)
    IN  Str(tenths \div 10) \o <<46, 48 + (tenths % 10)>>

HumanReadableBytes(n) ==
  IF n.none THEN <<48, 32, 66>>
  ELSE LET r == Loop(n.m, n.e, 0)
       IN  Format1(r.m, r.e) \o <<32>> \o UNITS[r.i + 1]

\* byte counts from 0 to beyond the largest unit
Mantissas == {k * 128 : k \in 0..MaxEighths} \cup {1, 1023, 1025}

ByteCounts ==
  {Bytes(m, e) : m \in Mantissas \ {0}, e \in 0..Len(UNITS)}
    \cup {Bytes(0, 0), None}

\* what a chart curve was given: the list built for it, or (alias) the deque
\* itself, whose later content the curve would then show
Copy(values) == [alias |-> FALSE, values |-> values]

Alias == [alias |-> TRUE, values |-> << >>]

\* s / 1024.0
Div1024(q) == QDiv(q[1], q[2] * 1024)

\* setData given the deques themselves for the three percentage charts
HandOutDeques(d, n) ==
  [at |-> n, cpu |-> Alias, ram |-> Alias, disk |-> Alias,
   net_sent |-> Copy([i \in 1..Len(d.net_sent_hist) |->
                        Div1024(d.net_sent_hist[i])]),
   net_recv |-> Copy([i \in 1..Len(d.net_recv_hist) |->
                        Div1024(d.net_recv_hist[i])])]

\* the five setData calls of update_all, made when n samples had been pushed
HandOut(d, n) ==
  [at |-> n, cpu |-> Copy(d.cpu_hist), ram |-> Copy(d.ram_hist),
   disk |-> Copy(d.disk_hist),
   net_sent |-> Copy([i \in 1..Len(d.net_sent_hist) |->
                        Div1024(d.net_sent_hist[i])]),
   net_recv |-> Copy([i \in 1..Len(d.net_recv_hist) |->
                        Div1024(d.net_recv_hist[i])])]

\* the curves before the first update_all
NoCurves ==
  [at |-> -1, cpu |-> Copy(<< >>), ram |-> Copy(<< >>), disk |-> Copy(<< >>),
   net_sent |-> Copy(<< >>), net_recv |-> Copy(<< >>)]

\* -------------------------------------------------------------------- state
VARIABLES
  data,          \* the SystemData object
  ret,           \* what the last sample() call returned (or that it raised)
  inp,           \* the readings the last sample() call took
  reads,         \* clock and counters read by __init__ and by each returned sample()
  prev_raised,   \* whether the sample() call before the last one raised
  pc,            \* "constructing", "running" or "exited"
  interval_spin, \* value of the interval spin box
  timer_interval,\* interval of the QTimer
  search_input,  \* text of the filter box
  top_spin,      \* value of the Top N spin box
  sort_combo,    \* text of the sort combo box
  process_list,  \* the items of the process list widget
  os_procs,      \* what the last process enumeration saw
  hrb_n,         \* the argument of the last human_readable_bytes call
  hrb_ret,       \* the string it returned
  stack,         \* the handlers being executed, innermost last
  pending,       \* signals queued by Qt, not yet delivered
  curves         \* what update_all last passed to the five chart curves

sampler == <<data, ret, inp, reads, prev_raised>>

widgets == <<interval_spin, timer_interval, search_input, top_spin, sort_combo>>

\* the state of calls made on their own and of the event loop, which the
\* handlers run as one step each do not look at
detached == <<hrb_n, hrb_ret, stack, pending>>

vars == <<sampler, pc, widgets, process_list, os_procs, detached, curves>>

NoReading ==
  Reading(0, FailedReading, FailedReading, [ok |-> FALSE, list |-> << >>],
          FailedReading, Counters(0, 0))

\* the state when PulseSystemInfoApp.__init__ has built the widgets and the
\* SystemData object and has connected the signals (line 170)
Init ==
  /\ data = NewSystemData(Counters(InitBytes, InitBytes), InitTime)
  /\ ret = NoReturn
  /\ inp = NoReading
  /\ reads = <<[now |-> InitTime, net |-> Counters(InitBytes, InitBytes)]>>
  /\ prev_raised = FALSE
  /\ pc = "constructing"
  /\ interval_spin = APP_UPDATE_INTERVAL_MS_DEFAULT
  /\ timer_interval = APP_UPDATE_INTERVAL_MS_DEFAULT
  /\ search_input = << >>
  /\ top_spin = TOP_N_DEFAULT
  /\ sort_combo = "CPU"
  /\ process_list = << >>
  /\ os_procs = << >>
  /\ hrb_n = None
  /\ hrb_ret = << >>
  /\ stack = << >>
  /\ pending = << >>
  /\ curves = NoCurves

Pushes == Len(reads) - 1

\* the sampler variables as one record, and one sample() call on it
Sampler == [data |-> data, ret |-> ret, inp |-> inp, reads |-> reads,
            prev_raised |-> prev_raised]

Called(g, in) ==
  LET r == SampleCall(g.data, in)
  IN  [data |-> r.d, ret |-> r.ret, inp |-> in,
       reads |-> IF r.ret.status = "returned"
                   THEN Append(g.reads, [now |-> in.now, net |-> in.net])
                   ELSE g.reads,
       prev_raised |-> g.ret.status = "raised"]

SetSampler(g) ==
  /\ data' = g.data
  /\ ret' = g.ret
  /\ inp' = g.inp
  /\ reads' = g.reads
  /\ prev_raised' = g.prev_raised

\* one SystemData.sample() call with readings from Ins
Sample(Ins, max) ==
  /\ Pushes < max
  /\ \E in \in Ins : SetSampler(Called(Sampler, in))
  /\ UNCHANGED <<pc, widgets, process_list, os_procs, detached, curves>>

sample == Sample(NetInputs, MaxSamples)

sample_disk == Sample(DiskInputs, MaxDiskSamples)

\* any sequence of sample() calls on a SystemData object
SpecData == Init /\ [][sample]_vars

SpecDisk == Init /\ [][sample_disk]_vars

\* ----------------------------------------------------------------- handlers
\* update_all on the sampler g: sample(), the labels (virtual_memory() is read
\* again and may raise), the partitions, the charts, update_process_list.
\* An exception leaves the handler at once.
UpdateAll(g, up, os) ==
  LET g1 == Called(g, up.in)
      done == g1.ret.status = "returned" /\ up.vm_ok
  IN  [g |-> g1, done |-> done,
       process_list |-> IF done
                          THEN UpdateProcessList(search_input, top_spin,
                                                 sort_combo, os)
                          ELSE process_list,
       os_procs |-> IF done THEN os ELSE os_procs,
       curves |-> IF done THEN HandOut(g1.data, Len(g1.reads) - 1)
                  ELSE curves]

SetUpdated(u) ==
  /\ SetSampler(u.g)
  /\ process_list' = u.process_list
  /\ os_procs' = u.os_procs
  /\ curves' = u.curves

\* the end of PulseSystemInfoApp.__init__: self.update_all(); an exception
\* ends the program
AppStart ==
  /\ pc = "constructing"
  /\ \E up \in UpdateInputs, os \in AppProcLists :
       LET u == UpdateAll(Sampler, up, os)
       IN  /\ SetUpdated(u)
           /\ pc' = IF u.done THEN "running" ELSE "exited"
  /\ UNCHANGED <<widgets, detached>>

\* timer.timeout -> update_all
Tick ==
  /\ pc = "running"
  /\ Pushes < MaxAppSamples
  /\ \E up \in UpdateInputs, os \in AppProcLists :
       SetUpdated(UpdateAll(Sampler, up, os))
  /\ UNCHANGED <<pc, widgets, detached>>

\* refresh_btn.clicked -> force_refresh: self.data.sample(); self.update_all()
force_refresh ==
  /\ pc = "running"
  /\ Pushes + 1 < MaxAppSamples
  /\ \E in \in AppInputs, up \in UpdateInputs, os \in AppProcLists :
       LET g1 == Called(Sampler, in)
       IN  IF g1.ret.status = "raised"
             THEN /\ SetSampler(g1)
                  /\ UNCHANGED <<process_list, os_procs, curves>>
             ELSE SetUpdated(UpdateAll(g1, up, os))
  /\ UNCHANGED <<pc, widgets, detached>>

\* apply_btn.clicked -> apply_settings
apply_settings ==
  /\ pc = "running"
  /\ Pushes < MaxAppSamples
  /\ timer_interval' = interval_spin
  /\ \E up \in UpdateInputs, os \in AppProcLists :
       SetUpdated(UpdateAll(Sampler, up, os))
  /\ UNCHANGED <<pc, interval_spin, search_input, top_spin, sort_combo,
                 detached>>

\* interval_spin.valueChanged -> on_interval_change
on_interval_change ==
  /\ pc = "running"
  /\ \E val \in IntervalValues \ {interval_spin} :
       /\ interval_spin' = val
       /\ timer_interval' = val
  /\ UNCHANGED <<sampler, pc, search_input, top_spin, sort_combo,
                 process_list, os_procs, detached, curves>>

\* search_input.textChanged connected to update_all
FilterChangedViaUpdateAll(Texts, Lists) ==
  /\ pc = "running"
  /\ Pushes < MaxAppSamples
  /\ \E text \in Texts \ {search_input}, os \in Lists, up \in UpdateInputs :
       /\ search_input' = text
       /\ SetUpdated(UpdateAll(Sampler, up, os))
  /\ UNCHANGED <<pc, interval_spin, timer_interval, top_spin, sort_combo,
                 detached>>

\* search_input.textChanged -> update_process_list
FilterChangedIn(Texts, Lists) ==
  /\ pc = "running"
  /\ \E text \in Texts \ {search_input}, os \in Lists :
       /\ search_input' = text
       /\ process_list' = UpdateProcessList(text, top_spin, sort_combo, os)
       /\ os_procs' = os
  /\ UNCHANGED <<sampler, pc, interval_spin, timer_interval, top_spin,
                 sort_combo, detached, curves>>

FilterChanged(Lists) == FilterChangedIn(Filters, Lists)

\* top_spin.valueChanged -> update_process_list
TopChanged(Lists) ==
  /\ pc = "running"
  /\ \E n \in TopValues \ {top_spin}, os \in Lists :
       /\ top_spin' = n
       /\ process_list' = UpdateProcessList(search_input, n, sort_combo, os)
       /\ os_procs' = os
  /\ UNCHANGED <<sampler, pc, interval_spin, timer_interval, search_input,
                 sort_combo, detached, curves>>

\* sort_combo.currentIndexChanged -> update_process_list
SortChanged(Lists) ==
  /\ pc = "running"
  /\ \E s \in SortKeys \ {sort_combo}, os \in Lists :
       /\ sort_combo' = s
       /\ process_list' = UpdateProcessList(search_input, top_spin, s, os)
       /\ os_procs' = os
  /\ UNCHANGED <<sampler, pc, interval_spin, timer_interval, search_input,
                 top_spin, detached, curves>>

\* process_list.itemDoubleClicked -> on_process_double_click: opens the folder
\* of the executable, or does nothing; no attribute of the application changes
on_process_double_click ==
  /\ pc = "running"
  /\ process_list # << >>
  /\ UNCHANGED <<sampler, pc, widgets, process_list, os_procs, detached,
                 curves>>

\* the application: its construction, then the Qt event loop running one
\* handler at a time
Next ==
  \/ AppStart
  \/ Tick
  \/ force_refresh
  \/ apply_settings
  \/ on_interval_change
  \/ FilterChanged(AppProcLists)
  \/ TopChanged(AppProcLists)
  \/ SortChanged(AppProcLists)
  \/ on_process_double_click

Spec == Init /\ [][Next]_vars

\* the process view requested with every filter, sort key and top-N value
\* over every enumeration
NextProc ==
  \/ AppStart
  \/ FilterChanged(ProcLists)
  \/ TopChanged(ProcLists)
  \/ SortChanged(ProcLists)

SpecProc == Init /\ [][NextProc]_vars


\* enumerations longer than the smallest top-N value: n processes of equal CPU
\* use, the first k of them named "A" and the others "b"
Crowd(n, k) ==
  [i \in 1..n |-> Proc(IF i <= k THEN <<65>> ELSE <<98>>, i, 50, i, "ok")]

TopLists == {Crowd(n, k) : n \in 0..MaxCrowd, k \in 0..MaxCrowd}

\* the process view requested over enumerations longer than top-N
NextTop ==
  \/ AppStart
  \/ FilterChanged(TopLists)
  \/ TopChanged(TopLists)
  \/ SortChanged(TopLists)

SpecTop == Init /\ [][NextTop]_vars


\* processes in enumeration order: "ab3" has exited, "abc", "b3" denies
\* access, "xy3", "foo", and one whose name is not readable; the three
\* readable named ones are the filter example of the specification
FilterCatalogue ==
  <<Proc(<<97, 98, 51>>, 4, 10, 1, "NoSuchProcess"),
    Proc(<<97, 98, 99>>, 1, 10, 1, "ok"),
    Proc(<<98, 51>>, 5, 10, 1, "AccessDenied"),
    Proc(<<120, 121, 51>>, 2, 10, 1, "ok"),
    Proc(<<102, 111, 111>>, 3, 10, 1, "ok"),
    Proc(<< >>, 13, 10, 1, "ok")>>

\* the processes of the catalogue at the positions in I, in catalogue order
Running(I) ==
  LET F[k \in 0..Len(FilterCatalogue)] ==
        IF k = 0 THEN << >>
        ELSE IF k \in I THEN Append(F[k - 1], FilterCatalogue[k])
        ELSE F[k - 1]
  IN  F[Len(FilterCatalogue)]

FilterLists ==
  {Running(I) : I \in {J \in SUBSET (1..Len(FilterCatalogue)) :
                         Cardinality(J) <= MaxProcs}}

FilterExample == Running({2, 4, 5})

\* texts typed into the search box: "", "3", "B" and " 3"
FilterTexts == {<< >>, <<51>>, <<66>>, <<32, 51>>}

\* the process view requested with every filter text
NextFilter ==
  \/ AppStart
  \/ FilterChangedIn(FilterTexts, FilterLists)

SpecFilter == Init /\ [][NextFilter]_vars


\* human_readable_bytes(n) called on its own
human_readable_bytes ==
  /\ \E n \in ByteCounts :
       /\ hrb_n' = n
       /\ hrb_ret' = HumanReadableBytes(n)
  /\ UNCHANGED <<sampler, pc, widgets, process_list, os_procs, stack,
                 pending, curves>>

SpecHuman == Init /\ [][human_readable_bytes]_vars


\* ----------------------------------------------------------- the event loop
\* the signals connected in __init__ and the slot each one calls
Slot(signal) ==
  CASE signal = "timer.timeout" -> "update_all"
    [] signal = "search_input.textChanged" -> "update_process_list"
    [] signal = "top_spin.valueChanged" -> "update_process_list"
    [] signal = "sort_combo.currentIndexChanged" -> "update_process_list"
    [] signal = "apply_btn.clicked" -> "apply_settings"
    [] signal = "refresh_btn.clicked" -> "force_refresh"
    [] signal = "process_list.itemDoubleClicked" -> "on_process_double_click"
    [] signal = "interval_spin.valueChanged" -> "on_interval_change"

Signals ==
  {"timer.timeout", "search_input.textChanged", "top_spin.valueChanged",
   "sort_combo.currentIndexChanged", "apply_btn.clicked",
   "refresh_btn.clicked", "process_list.itemDoubleClicked",
   "interval_spin.valueChanged"}

\* what each slot does, in order
Body(h) ==
  CASE h = "update_all" -> <<"sample", "redraw", "update_process_list">>
    [] h = "force_refresh" ->
         <<"sample", "sample", "redraw", "update_process_list", "showMessage">>
    [] h = "apply_settings" ->
         <<"setInterval", "sample", "redraw", "update_process_list",
           "showMessage">>
    [] h = "update_process_list" -> <<"update_process_list">>
    [] h = "on_process_double_click" -> <<"open">>
    [] h = "on_interval_change" -> <<"setInterval">>

Frame(h, at) == [h |-> h, at |-> at]

Doing(f) == Body(f.h)[f.at]

\* a slot that delivered queued events while it redraws the charts
PumpsEventsInRedraw(f) == Doing(f) = "redraw"

\* whether the slot, where it stands, runs the event loop itself: no slot
\* calls processEvents, opens a modal dialog or starts a thread
PumpsEvents(f) == FALSE

\* the last statement of __init__ calls update_all directly
Construct ==
  /\ pc = "constructing"
  /\ stack = << >>
  /\ stack' = <<Frame("update_all", 1)>>
  /\ UNCHANGED <<sampler, pc, widgets, process_list, os_procs, hrb_n, hrb_ret,
                 pending, curves>>

\* the timer expires or the user acts on a widget: Qt queues the signal
Post ==
  /\ Len(pending) < MaxPending
  /\ \E signal \in Signals :
       /\ signal # "timer.timeout" => pc = "running"
       /\ pending' = Append(pending, signal)
  /\ UNCHANGED <<sampler, pc, widgets, process_list, os_procs, hrb_n, hrb_ret,
                 stack, curves>>

\* app.exec_() delivers the oldest queued signal to its slot, when no slot is
\* running or the running one runs the event loop
Dispatch ==
  /\ pc = "running"
  /\ pending # << >>
  /\ IF stack = << >> THEN TRUE ELSE PumpsEvents(Last(stack))
  /\ stack' = Append(stack, Frame(Slot(Head(pending)), 1))
  /\ pending' = Tail(pending)
  /\ UNCHANGED <<sampler, pc, widgets, process_list, os_procs, hrb_n, hrb_ret,
                 curves>>

\* the running slot goes on to its next statement
Advance ==
  /\ stack # << >>
  /\ Last(stack).at < Len(Body(Last(stack).h))
  /\ stack' = [stack EXCEPT ![Len(stack)].at = @ + 1]
  /\ UNCHANGED <<sampler, pc, widgets, process_list, os_procs, hrb_n, hrb_ret,
                 pending, curves>>

\* the running slot returns, or sample() raises in it; the constructor's
\* update_all returning lets the event loop start
Return ==
  /\ stack # << >>
  /\ \/ Last(stack).at = Len(Body(Last(stack).h))
     \/ Doing(Last(stack)) = "sample" /\ pc = "running"
  /\ stack' = SubSeq(stack, 1, Len(stack) - 1)
  /\ pc' = IF pc = "constructing" THEN "running" ELSE pc
  /\ UNCHANGED <<sampler, widgets, process_list, os_procs, hrb_n, hrb_ret,
                 pending, curves>>

NextLoop ==
  \/ Construct
  \/ Post
  \/ Dispatch
  \/ Advance
  \/ Return

SpecLoop == Init /\ [][NextLoop]_vars


\* =================================================================== claims
Histories ==
  <<data.cpu_hist, data.ram_hist, data.disk_hist, data.net_sent_hist,
    data.net_recv_hist>>

\* the readings of the last returned sample() call and of the one before it
\* (or of __init__)
Cur == reads[Len(reads)]

Prev == reads[Len(reads) - 1]

\* C1: after construction and after any sequence of sample() calls, returning
\* or raising, each of the five history series has exactly MAX_HISTORY entries.
C1_HistoryLengthIsMaxHistory ==
  \A i \in 1..5 : Len(Histories[i]) = MAX_HISTORY

C1_Witness ==
  /\ Pushes >= 2
  /\ prev_raised
  /\ ret.status = "returned"
  /\ Last(data.cpu_hist) = Q(10)

\* C2 (as claimed): a counter read smaller than the stored one gives a returned
\* and pushed rate of 0, and no history entry of either network series is
\* negative.
C2_CounterResetGivesZeroRate ==
  /\ \A i \in 1..MAX_HISTORY :
       ~QNeg(data.net_sent_hist[i]) /\ ~QNeg(data.net_recv_hist[i])
  /\ ret.status = "returned" =>
       /\ Cur.net.bytes_sent < Prev.net.bytes_sent =>
            ret.net_sent = Q(0) /\ Last(data.net_sent_hist) = Q(0)
       /\ Cur.net.bytes_recv < Prev.net.bytes_recv =>
            ret.net_recv = Q(0) /\ Last(data.net_recv_hist) = Q(0)

\* C3: when a returned sample() read a counter not below the one read by the
\* preceding returned sample() (or by __init__), a positive time after it, the
\* returned rate is the counter difference divided by that time.
C3_RateIsDifferenceOverElapsed ==
  ret.status = "returned" =>
    LET elapsed == Cur.now - Prev.now
    IN  elapsed > 0 =>
          /\ Cur.net.bytes_sent >= Prev.net.bytes_sent =>
               ret.net_sent
                 = QDiv(Cur.net.bytes_sent - Prev.net.bytes_sent, elapsed)
          /\ Cur.net.bytes_recv >= Prev.net.bytes_recv =>
               ret.net_recv
                 = QDiv(Cur.net.bytes_recv - Prev.net.bytes_recv, elapsed)

C3_Witness ==
  /\ ret.status = "returned"
  /\ Cur.now - Prev.now = 2
  /\ Cur.net.bytes_sent - Prev.net.bytes_sent = 1
  /\ ret.net_sent = <<1, 2>>

\* C4: when a returned sample() read the clock at or before the stored
\* timestamp, both rates are the raw counter differences (the divisor is 1).
C4_ClampedElapsedDividesByOne ==
  ret.status = "returned" /\ Cur.now - Prev.now <= 0 =>
    /\ ret.net_sent = Q(Cur.net.bytes_sent - Prev.net.bytes_sent)
    /\ ret.net_recv = Q(Cur.net.bytes_recv - Prev.net.bytes_recv)

C4_Witness ==
  /\ ret.status = "returned"
  /\ Cur.now - Prev.now < -1
  /\ ret.net_sent = Q(1)

\* the bytes the pushed sent rates account for: each rate times the elapsed
\* time it was divided by
RECURSIVE AttributedSent(_)
AttributedSent(k) ==
  IF k = 0 THEN 0
  ELSE AttributedSent(k - 1)
         + QTimes(data.net_sent_hist[MAX_HISTORY - Pushes + k],
                  Elapsed(reads[k + 1].now, reads[k].now))[1]

\* C5: after every returned sample() the stored counter state is the counters
\* and the timestamp that call read, clamped or not; so the pushed rates
\* account for the counter growth since construction exactly once.
C5_CounterStateReplaced ==
  ret.status = "returned" =>
    /\ data.last_net = inp.net
    /\ data.last_time = inp.now
    /\ AttributedSent(Pushes) = inp.net.bytes_sent - reads[1].net.bytes_sent

C5_Witness ==
  /\ ret.status = "returned"
  /\ Pushes >= 2
  /\ Cur.now - Prev.now <= 0
  /\ Cur.net.bytes_sent < Prev.net.bytes_sent
  /\ data.last_time = Cur.now

\* C6: a sample() call that raises leaves the histories and the counter state
\* as they were, and a returning call after it derives its rates from the
\* readings of the last returned call.
C6_FailedSampleLeavesState ==
  [][/\ ret'.status = "raised" => data' = data
     /\ ret'.status = "returned" /\ ret.status = "raised" =>
          /\ ret'.net_sent
               = Rate(inp'.net.bytes_sent, Last(reads).net.bytes_sent,
                      Elapsed(inp'.now, Last(reads).now))
          /\ ret'.net_recv
               = Rate(inp'.net.bytes_recv, Last(reads).net.bytes_recv,
                      Elapsed(inp'.now, Last(reads).now))]_vars

C6_Witness ==
  /\ prev_raised
  /\ ret.status = "returned"
  /\ Pushes >= 2
  /\ Prev.now # InitTime
  /\ ret.net_sent # Q(0)

\* C7: a partition whose usage read fails is skipped and the call returns; with
\* a readable partition of total > 0 the disk percent is 100 * used / total
\* summed over the readable partitions, 37.5 for (50,100) and (25,100).
C7_DiskPercentOverReadablePartitions ==
  /\ ret.status # "none" /\ inp.cpu.ok /\ inp.ram.ok => ret.status = "returned"
  /\ ret.status = "returned" /\ inp.parts.ok =>
       LET l == inp.parts.list
           readable == {i \in 1..Len(l) : l[i].ok}
       IN  /\ (\E i \in readable : l[i].total > 0) =>
                ret.disk_percent = QDiv(100 * SumUsed(l), SumTotal(l))
           /\ l = <<Usage(50, 100), Usage(25, 100)>> =>
                ret.disk_percent = <<75, 2>>

C7_Witness ==
  /\ ret.status = "returned"
  /\ inp.parts.ok
  /\ inp.parts.list = <<FailedUsage, Usage(25, 100)>>
  /\ inp.probe.ok
  /\ ret.disk_percent = Q(25)

\* C8 (as claimed): with no readable partition, or a summed total of zero, the
\* disk percent is that of the single-path probe, and 0 only if the probe fails.
C8_FallsBackToProbe ==
  ret.status = "returned" /\ (~inp.parts.ok \/ SumTotal(inp.parts.list) = 0) =>
    ret.disk_percent = IF inp.probe.ok THEN inp.probe.v ELSE Q(0)

\* C9 (as claimed): a force_refresh that completes pushes one value to each
\* series, advances the counter state once and leaves the timer interval.
C9_ForceRefreshSamplesOnce ==
  [][force_refresh /\ ret'.status = "returned" =>
       /\ Len(reads') = Len(reads) + 1
       /\ timer_interval' = timer_interval]_vars

\* position of a process in the enumeration the view was built from
Pos(t) == CHOOSE i \in 1..Len(os_procs) : os_procs[i].pid = t.pid

\* a ranks before b under the selected sort key
RanksBefore(a, b) ==
  CASE sort_combo = "CPU" -> a.cpu > b.cpu \/ (a.cpu = b.cpu /\ Pos(a) < Pos(b))
    [] sort_combo = "RAM" -> a.mem > b.mem \/ (a.mem = b.mem /\ Pos(a) < Pos(b))
    [] sort_combo = "PID" -> a.pid < b.pid \/ (a.pid = b.pid /\ Pos(a) < Pos(b))
    [] OTHER ->
         \/ LexLess(LowerStr(a.name), LowerStr(b.name))
         \/ LowerStr(a.name) = LowerStr(b.name) /\ Pos(a) < Pos(b)

\* C10: the process view is ordered by the selected key (CPU and RAM
\* descending, PID ascending, name ascending ignoring case), equal keys in
\* enumeration order; A(10) B(50) C(50) by CPU gives B, C, A.
C10_ViewOrderedByKeyStable ==
  /\ \A i, j \in 1..Len(process_list) :
       i < j => RanksBefore(process_list[i], process_list[j])
  /\ os_procs = RankingExample /\ sort_combo = "CPU" /\ search_input = << >> =>
       [i \in 1..Len(process_list) |-> process_list[i].pid] = <<2, 3, 1>>

C10_Witness ==
  /\ os_procs = RankingExample
  /\ sort_combo = "CPU"
  /\ Len(process_list) = 3
  /\ process_list[1].pid = 2
  /\ process_list[2].pid = 3

\* the records of the enumeration that pass the filter
Matching ==
  LET procs == Enumerate(os_procs)
  IN  {procs[i] : i \in {j \in 1..Len(procs) :
                           Matches(LowerStr(Strip(search_input)), procs[j])}}

InView(t) == \E i \in 1..Len(process_list) : process_list[i] = t

\* C11: the view holds at most top-N records and is exactly the first top-N
\* of the sorted records that pass the filter: every record shown passes the
\* filter, all of them are shown when fewer than top-N pass, and a passing
\* record is left out only when top-N passing records rank before it.
C11_ViewIsFirstTopNOfMatching ==
  /\ Len(process_list) <= top_spin
  /\ \A i \in 1..Len(process_list) : process_list[i] \in Matching
  /\ Len(process_list) =
       IF Cardinality(Matching) < top_spin THEN Cardinality(Matching)
       ELSE top_spin
  /\ \A t \in Matching : ~InView(t) =>
       \A i \in 1..Len(process_list) : RanksBefore(process_list[i], t)

\* five of six processes pass the filter and the one that does not ranks first
C11_Witness ==
  /\ Len(os_procs) = 6
  /\ search_input = <<98>>
  /\ sort_combo = "CPU"
  /\ top_spin = TOP_N_MIN
  /\ os_procs[1].name = <<65>>
  /\ Len(process_list) = 5
  /\ process_list[5].pid = 6

\* the pids shown in the view
ViewPids == {process_list[i].pid : i \in 1..Len(process_list)}

\* q occurs in s
Occurs(q, s) == \E u \in 0..Len(s) : \E v \in 0..Len(s) :
                  u + Len(q) + v = Len(s) /\ SubSeq(s, u + 1, u + Len(q)) = q

\* C12 as claimed: with a non-empty filter text a record is kept exactly
\* when its lowercased name contains the lowercased filter text or the filter
\* text is the decimal rendering of its PID; an empty filter keeps all.
C12_KeptIffTextMatches ==
  LET procs == Enumerate(os_procs)
      text == LowerStr(search_input)
  IN  \A i \in 1..Len(procs) :
        InView(procs[i]) <=>
          \/ search_input = << >>
          \/ Occurs(text, LowerStr(procs[i].name))
          \/ search_input = Str(procs[i].pid)

\* C12: with q the filter text stripped of surrounding whitespace and
\* lowercased, a record is kept exactly when q is empty, its lowercased name
\* contains q, or q is the decimal rendering of its PID; the filter "3" over
\* PIDs 1, 2, 3 named "abc", "xy3", "foo" keeps PID 3 and "xy3".
C12_KeptIffStrippedTextMatches ==
  LET procs == Enumerate(os_procs)
      q == LowerStr(Strip(search_input))
  IN  /\ \A i \in 1..Len(procs) :
           InView(procs[i]) <=>
             \/ q = << >>
             \/ Occurs(q, LowerStr(procs[i].name))
             \/ q = Str(procs[i].pid)
      /\ os_procs = FilterExample /\ search_input = <<51>> =>
           ViewPids = {2, 3}

\* the filter " 3" keeps the process with PID 3, named "foo"
C12_Witness ==
  /\ search_input = <<32, 51>>
  /\ os_procs = FilterExample
  /\ ViewPids = {2, 3}

\* C13: a process whose CPU or memory read fails because it has exited or
\* denies access is left out of the view; every record shown is a readable
\* process of this enumeration, shown once; every readable process that
\* passes the filter is shown, wherever the failing ones stand.
C13_FailingProcessesOmitted ==
  LET q == LowerStr(Strip(search_input))
      Name(p) == IF p.name # << >> THEN p.name ELSE Str(p.pid)
      Passes(p) == q = << >> \/ Occurs(q, LowerStr(Name(p))) \/ q = Str(p.pid)
  IN  /\ \A i \in 1..Len(process_list) :
           \E j \in 1..Len(os_procs) :
             /\ os_procs[j].err = "ok"
             /\ os_procs[j].pid = process_list[i].pid
      /\ \A i, j \in 1..Len(process_list) :
           i # j => process_list[i].pid # process_list[j].pid
      /\ \A j \in 1..Len(os_procs) :
           os_procs[j].err = "ok" /\ Passes(os_procs[j]) =>
             os_procs[j].pid \in ViewPids

\* an exited and a denying process are enumerated before a readable one
C13_Witness ==
  /\ Len(os_procs) = 3
  /\ os_procs[1].err = "NoSuchProcess"
  /\ os_procs[2].err = "AccessDenied"
  /\ os_procs[3].err = "ok"
  /\ search_input = <<51>>
  /\ ViewPids = {os_procs[3].pid}

\* the values a returned sample() call reports, in the order of Histories
Snapshot(r) == <<r.cpu, r.ram, r.disk_percent, r.net_sent, r.net_recv>>

\* C14: a push onto a full series evicts exactly the oldest entry and keeps
\* the order of the others: [v1..vN] becomes [v2..vN, x], N = MAX_HISTORY,
\* in each of the five series at every returning sample() call.
C14_PushEvictsOldest ==
  [][Len(reads') = Len(reads) + 1 =>
       \A s \in 1..5 :
         /\ Len(Histories[s]) = MAX_HISTORY
         /\ Len(Histories'[s]) = MAX_HISTORY
         /\ SubSeq(Histories'[s], 1, MAX_HISTORY - 1)
              = SubSeq(Histories[s], 2, MAX_HISTORY)
         /\ Histories'[s][MAX_HISTORY] = Snapshot(ret')[s]]_vars

\* two pushes onto the full series, the first one moved down by the second
C14_Witness ==
  /\ Pushes = 2
  /\ data.cpu_hist[MAX_HISTORY - 2] = Q(0)
  /\ data.cpu_hist[MAX_HISTORY - 1] = OkCpu.v
  /\ data.net_sent_hist[MAX_HISTORY - 1] # data.net_sent_hist[MAX_HISTORY]
  /\ data.net_sent_hist[MAX_HISTORY - 1] # Q(0)

\* the number and the unit of a returned string "<digits>.<digit> <unit>"
RetSpace == CHOOSE k \in 1..Len(hrb_ret) : hrb_ret[k] = 32

RetUnit == SubSeq(hrb_ret, RetSpace + 1, Len(hrb_ret))

RECURSIVE Val(_)
Val(digits) ==
  IF digits = << >> THEN 0
  ELSE 10 * Val(SubSeq(digits, 1, Len(digits) - 1))
         + (digits[Len(digits)] - 48)

\* the number shown, in tenths
RetTenths == Val(SubSeq(hrb_ret, 1, RetSpace - 3) \o <<hrb_ret[RetSpace - 1]>>)

RetWellFormed ==
  /\ \E k \in 1..Len(hrb_ret) : hrb_ret[k] = 32
  /\ RetSpace >= 4
  /\ hrb_ret[RetSpace - 2] = 46
  /\ \A k \in (1..(RetSpace - 3)) \cup {RetSpace - 1} :
       hrb_ret[k] \in 48..57

\* 1024^j <= m * 1024^e
ThresholdReached(j, m, e) ==
  \/ j <= e /\ m >= 1
  \/ j > e /\ j - e <= 3 /\ m >= Pow(1024, j - e)

\* the largest unit whose threshold the value reaches, the value over that
\* threshold shown to the nearest tenth
RendersInLargestUnit ==
  LET m == hrb_n.m
      e == hrb_n.e
      reached == {j \in 0..4 : ThresholdReached(j, m, e)}
      i == IF reached = {} THEN 0
           ELSE CHOOSE j \in reached : \A k \in reached : k <= j
  IN  /\ RetWellFormed
      /\ RetUnit = <<<<66>>, <<75, 66>>, <<77, 66>>, <<71, 66>>,
                     <<84, 66>>>>[i + 1]
      /\ IF e >= i THEN RetTenths = 10 * m * Pow(1024, e - i)
         ELSE LET d == Pow(1024, i - e)
              IN  /\ 20 * m - 2 * RetTenths * d <= d
                  /\ 2 * RetTenths * d - 20 * m <= d

HumanCalled == hrb_ret # << >> /\ ~hrb_n.none

\* C15 as claimed: the largest unit among B, KB, MB, GB, TB whose threshold
\* 1024^i does not exceed the value, the value over 1024^i with one decimal;
\* humanize(0) is "0 B", humanize(1536) "1.5 KB", humanize(1073741824)
\* "1.0 GB".
C15_ZeroRendersWithoutDecimal ==
  HumanCalled =>
    /\ RendersInLargestUnit
    /\ hrb_n = Bytes(0, 0) => hrb_ret = <<48, 32, 66>>
    /\ hrb_n = Bytes(1536, 0) => hrb_ret = <<49, 46, 53, 32, 75, 66>>
    /\ hrb_n = Bytes(1, 3) => hrb_ret = <<49, 46, 48, 32, 71, 66>>

\* C15: the largest unit among B, KB, MB, GB, TB whose threshold 1024^i does
\* not exceed the value (TB beyond), the value over 1024^i with one decimal;
\* humanize(0) is "0.0 B", humanize(1536) "1.5 KB", humanize(1073741824)
\* "1.0 GB"; only humanize(None) is "0 B".
C15_RendersInLargestUnit ==
  /\ HumanCalled =>
       /\ RendersInLargestUnit
       /\ hrb_n = Bytes(0, 0) => hrb_ret = <<48, 46, 48, 32, 66>>
       /\ hrb_n = Bytes(1536, 0) => hrb_ret = <<49, 46, 53, 32, 75, 66>>
       /\ hrb_n = Bytes(1, 3) => hrb_ret = <<49, 46, 48, 32, 71, 66>>
  /\ hrb_ret # << >> /\ hrb_n.none => hrb_ret = <<48, 32, 66>>

\* humanize(0) has returned "0.0 B"
C15_Witness ==
  /\ hrb_n = Bytes(0, 0)
  /\ hrb_ret = <<48, 46, 48, 32, 66>>

\* C16: producing a process view on a change of the filter text, of the sort
\* key or of top-N leaves the five series and the counter state (last
\* counters, last timestamp) as they were, whatever the request and the
\* processes enumerated.
C16_ViewRequestLeavesSampler ==
  [][search_input' # search_input \/ top_spin' # top_spin
       \/ sort_combo' # sort_combo =>
       /\ Histories' = Histories
       /\ data'.last_net = data.last_net
       /\ data'.last_time = data.last_time
       /\ reads' = reads]_vars

\* a view filtered after samples were pushed
C16_Witness ==
  /\ Pushes >= 2
  /\ search_input # << >>
  /\ sort_combo # "CPU"
  /\ process_list # << >>
  /\ Last(data.cpu_hist) # Q(0)

\* the running slots that call sample(), and those inside a sample() call
Sampling ==
  {k \in 1..Len(stack) :
     stack[k].h \in {"update_all", "force_refresh", "apply_settings"}}

InSample == {k \in 1..Len(stack) : Doing(stack[k]) = "sample"}

\* C17: slots run to completion on the one GUI thread: at most one slot that
\* calls sample() (update_all, force_refresh, apply_settings) is running at
\* any time, so no sample() call overlaps another; a tick that falls due
\* meanwhile waits in the queue.
C17_OneSamplingHandlerAtATime ==
  /\ Cardinality(Sampling) <= 1
  /\ Cardinality(InSample) <= 1
  /\ Len(stack) <= 1

\* force_refresh is inside sample() while a timer tick and a click on Apply
\* wait
C17_Witness ==
  /\ Len(stack) = 1
  /\ stack[1].h = "force_refresh"
  /\ Doing(stack[1]) = "sample"
  /\ pending = <<"timer.timeout", "apply_btn.clicked">>

\* what a curve shows: the list it was given, or the deque it aliases
Shown(c, hist) == IF c.alias THEN hist ELSE c.values

ShownCurves ==
  <<Shown(curves.cpu, data.cpu_hist), Shown(curves.ram, data.ram_hist),
    Shown(curves.disk, data.disk_hist),
    Shown(curves.net_sent, data.net_sent_hist),
    Shown(curves.net_recv, data.net_recv_hist)>>

Scaled(hist) == [i \in 1..Len(hist) |-> QDiv(hist[i][1], 1024 * hist[i][2])]

\* C18: update_all hands each chart a sequence of its own, holding the
\* series as it stands (the network rates divided by 1024): reading the
\* series for display removes or alters none of their entries, and a sequence
\* handed out is not changed by a later sample().
C18_CurvesGetCopies ==
  [][IF curves' = curves THEN ShownCurves' = ShownCurves
     ELSE /\ ShownCurves' =
               <<data'.cpu_hist, data'.ram_hist, data'.disk_hist,
                 Scaled(data'.net_sent_hist), Scaled(data'.net_recv_hist)>>
          /\ \A s \in 1..5 :
               /\ Len(Histories'[s]) = MAX_HISTORY
               /\ SubSeq(Histories'[s], 1, MAX_HISTORY - (Pushes' - Pushes))
                    = SubSeq(Histories[s], 1 + (Pushes' - Pushes), MAX_HISTORY)
    ]_vars

\* a sample pushed after the curves were last set
C18_Witness ==
  /\ curves.at >= 1
  /\ curves.at < Pushes
  /\ ~curves.cpu.alias
  /\ curves.cpu.values # data.cpu_hist
  /\ Len(curves.cpu.values) = MAX_HISTORY

\* the place in a series of the value pushed by the k-th returned sample()
PlaceOf(k) == MAX_HISTORY - Pushes + k

\* C19: after every returned sample() the last entry of each of the five
\* series is the corresponding value of the snapshot returned; the series
\* advance together: each holds one entry per returned call, in call order,
\* after the same number of remaining initial zeros.
C19_SnapshotIsLastOfEachSeries ==
  /\ ret.status = "returned" =>
       \A s \in 1..5 : Last(Histories[s]) = Snapshot(ret)[s]
  /\ \A s \in 1..5 :
       /\ Len(Histories[s]) = MAX_HISTORY
       /\ SubSeq(Histories[s], 1, MAX_HISTORY - Pushes)
            = SubSeq(Prefilled, 1, MAX_HISTORY - Pushes)
  /\ \A k \in 1..Pushes :
       /\ data.cpu_hist[PlaceOf(k)] # Q(0)
       /\ data.ram_hist[PlaceOf(k)] # Q(0)
       /\ data.disk_hist[PlaceOf(k)] # Q(0)
       /\ data.net_sent_hist[PlaceOf(k)] =
            Rate(reads[k + 1].net.bytes_sent, reads[k].net.bytes_sent,
                 Elapsed(reads[k + 1].now, reads[k].now))
       /\ data.net_recv_hist[PlaceOf(k)] =
            Rate(reads[k + 1].net.bytes_recv, reads[k].net.bytes_recv,
                 Elapsed(reads[k + 1].now, reads[k].now))

\* a second sample() has returned two different non-zero rates
C19_Witness ==
  /\ ret.status = "returned"
  /\ Pushes = 2
  /\ ret.net_sent # Q(0)
  /\ ret.net_sent # ret.net_recv
  /\ Last(data.net_recv_hist) = ret.net_recv
  /\ Last(data.disk_hist) = ret.disk_percent

====
